---- MODULE Spec2Model ----
(***************************************************************************)
(* Model of the synthgen consumer: the dispatcher loop of main and         *)
(* run_consumer, the per-delivery task process_message, the retrying HTTP  *)
(* caller call_llm and the store adapter DatabaseClient.                   *)
(*                                                                         *)
(* Every await of the Rust code is a step boundary: a task is a record     *)
(* with a program counter, and tasks interleave with each other and with   *)
(* the dispatcher at those boundaries, as tokio::spawn lets them.          *)
(***************************************************************************)
EXTENDS Integers, Sequences, FiniteSets, TLC

(***************************************************************************)
(* Settings (main.rs Settings) and the bounds of the model.                *)
(***************************************************************************)
\* settings.max_parallel_tasks
max_parallel_tasks == 1
\* settings.retry_attempts
retry_attempts == 2
\* number of deliveries the dispatcher spawns a task for
MaxTasks == 2
\* number of broker sessions (channels) the dispatcher opens
MaxSessions == 2

\* the time up to which the clock is followed, in milliseconds
MaxClock == 2

\* number of deliveries outstanding on the channel up to which the
\* accounting of a session is followed
MaxOutstanding == 4

\* width of the prefetch count of basic_qos (u16)
PrefetchModulus == 65536

\* settings.base_delay_ms and the max_delay_secs call_llm receives
base_delay_ms == 700
max_delay_secs == 1

Tasks == 1..MaxTasks
Sessions == 1..MaxSessions

(***************************************************************************)
(* JSON values, as far as the code looks into them.                        *)
(***************************************************************************)
JNull == [t |-> "null", s |-> ""]
JStr(x) == [t |-> "string", s |-> x]
JObj(x) == [t |-> "object", s |-> x]

\* serde_json Value::as_str().unwrap_or_default()
AsStrOrDefault(v) == IF v.t = "string" THEN v.s ELSE ""

(***************************************************************************)
(* Deliveries the producer has put on the queue data_generation_tasks.     *)
(* parse is whether serde_json::from_slice accepts the bytes.              *)
(***************************************************************************)
Deliveries ==
  << [parse |-> TRUE,  message_id |-> JStr("m1"), body_hash |-> JStr("h1")],
     [parse |-> TRUE,  message_id |-> JStr("m2"), body_hash |-> JStr("h1")],
     [parse |-> FALSE, message_id |-> JNull,      body_hash |-> JNull],
     [parse |-> TRUE,  message_id |-> JNull,      body_hash |-> JStr("h1")] >>

DeliveryIds == 1..Len(Deliveries)

\* the deliveries the dispatcher is run on: one of each kind it and the
\* broker can tell apart (two messages that share a body hash, one that
\* does not parse)
CoreDeliveryIds == 1..3

\* message_data["message_id"].as_str().unwrap_or_default()
MessageIdOf(d) == AsStrOrDefault(Deliveries[d].message_id)
\* message_data["body_hash"].as_str().unwrap_or_default()
BodyHashOf(d) == AsStrOrDefault(Deliveries[d].body_hash)

(***************************************************************************)
(* schemas::task_status::TaskStatus and its as_str spelling.               *)
(***************************************************************************)
Pending == "PENDING"
Processing == "PROCESSING"
Completed == "COMPLETED"
Failed == "FAILED"
TaskStatus == {Pending, Processing, Completed, Failed}

(***************************************************************************)
(* schemas::llm_response::LLMResponse as process_message builds it.        *)
(***************************************************************************)
LLMResponse(c, cached, attempt) ==
  [completions |-> c, cached |-> cached, attempt |-> attempt]

\* the response process_message passes with PROCESSING and FAILED
EmptyResponse == LLMResponse(JNull, FALSE, 0)

(***************************************************************************)
(* The rows of table events the producer created: one per message id,      *)
(* PENDING, with the body hash of the message.                             *)
(***************************************************************************)
\* a timestamp or duration column that is NULL
NoTime == -1

InitialRow(h) ==
  [status |-> Pending, body_hash |-> h, started_at |-> NoTime,
   completed_at |-> NoTime, duration |-> NoTime, result |-> JNull, cached |-> FALSE]

InitialEvents ==
  [id \in {"m1", "m2"} |-> InitialRow("h1")]

VARIABLES
  disp,       \* where the dispatcher (main / run_consumer) stands
  session,    \* number of channels created so far; the current session
  chanOpen,   \* chanOpen[s]: the channel of session s is still open
  permits,    \* permits[s]: available permits of the semaphore of session s
  held,       \* the delivery run_consumer took from the stream, or 0
  queue,      \* broker: deliveries ready on the queue
  unacked,    \* broker: unacked[s] = deliveries outstanding on session s
  ntasks,     \* number of tasks spawned so far
  tasks,      \* tasks[t]: the state of the t-th spawned process_message
  events,     \* store: table events, message_id -> row
  clock,      \* Utc::now(), in milliseconds
  last_call,  \* the last direct call of update_event_status and its effect
  qos         \* the prefetch and semaphore accounting of one session under a
              \* configured max_parallel_tasks of any size

vars ==
  <<disp, session, chanOpen, permits, held, queue, unacked, ntasks, tasks, events,
    clock, last_call, qos>>


(***************************************************************************)
(* Store adapter: DatabaseClient (db.rs).                                  *)
(***************************************************************************)
\* a terminal UPDATE that leaves out status = $2
UpdateRowKeepStatus(row, status, resp, started_at, now) ==
  IF status = Processing
    THEN [row EXCEPT !.status = status, !.started_at = started_at]
    ELSE IF status \in {Completed, Failed}
      THEN [row EXCEPT !.completed_at = now, !.duration = now - started_at,
                       !.result = resp.completions, !.cached = resp.cached]
      ELSE row

\* a terminal UPDATE that sets started_at as the PROCESSING one does, from
\* its first parameter
UpdateRowRestarting(row, status, resp, started_at, now) ==
  IF status = Processing
    THEN [row EXCEPT !.status = status, !.started_at = started_at]
    ELSE IF status \in {Completed, Failed}
      THEN [row EXCEPT !.status = status, !.started_at = now,
                       !.completed_at = now, !.duration = now - started_at,
                       !.result = resp.completions, !.cached = resp.cached]
      ELSE row

\* the SET clauses of the two UPDATE statements of update_event_status;
\* now is Utc::now() at the call (completed_at, line 97) and duration is
\* completed_at - started_at (lines 98-100)
UpdateRow(row, status, resp, started_at, now) ==
  IF status = Processing
    THEN [row EXCEPT !.status = status, !.started_at = started_at]
    ELSE IF status \in {Completed, Failed}
      THEN [row EXCEPT !.status = status,
                       !.completed_at = now, !.duration = now - started_at,
                       !.result = resp.completions, !.cached = resp.cached]
      ELSE row

\* an update_event_status that inserts the row when none matches
update_event_status_upsert(ev, id, status, resp, started_at, now) ==
  IF id \in DOMAIN ev
    THEN [ev EXCEPT ![id] = UpdateRow(ev[id], status, resp, started_at, now)]
    ELSE [k \in DOMAIN ev \cup {id} |->
            IF k = id THEN UpdateRow(InitialRow(""), status, resp, started_at, now)
            ELSE ev[k]]

\* update_event_status when the pool and the statement succeed: UPDATE ...
\* WHERE message_id = id touches the row of id if there is one, else nothing
update_event_status(ev, id, status, resp, started_at, now) ==
  IF id \in DOMAIN ev
    THEN [ev EXCEPT ![id] = UpdateRow(ev[id], status, resp, started_at, now)]
    ELSE ev

\* attempt of the response synthesized on a cache hit
CacheHitAttempt == 0

\* the rows SELECT result FROM events WHERE status = 'COMPLETED' AND
\* body(_hash) = h may return under LIMIT 1
CachedRows(ev, h) ==
  {id \in DOMAIN ev : ev[id].status = Completed /\ ev[id].body_hash = h}

\* a cache hit that does not flag its response as cached
get_cached_completion_unflagged(ev, h) ==
  {LLMResponse(JStr(AsStrOrDefault(ev[id].result)), FALSE, CacheHitAttempt) :
     id \in CachedRows(ev, h)}

\* get_cached_completion when the pool and the query succeed: the set of
\* responses it may return (empty on a miss)
get_cached_completion(ev, h) ==
  {LLMResponse(JStr(AsStrOrDefault(ev[id].result)), TRUE, CacheHitAttempt) :
     id \in CachedRows(ev, h)}

\* Retry-After / X-RateLimit-Reset absent or not a number
NoHeader == -1
\* error.code absent or not a non-negative integer
NoCode == -1

(***************************************************************************)
(* The log of what one process_message run did, in order. Of a write it    *)
(* keeps the status, the outcome and the response passed (cached, attempt, *)
(* completions in result); of a request the class of its outcome, the      *)
(* attempt index, the HTTP status (code), error.code of the body (ecode)   *)
(* and the delay the closure asked for in seconds (retry_after); of a      *)
(* whether the body parsed as JSON (json), the Retry-After header in       *)
(* seconds (header), X-RateLimit-Reset minus now (reset_in_ms) and how the *)
(* error of the attempt begins (error) and whether the parsed body holds   *)
(* an error object at "error" or at "completions.error" (errobj); of a     *)
(* sleep its length in milliseconds (ms), the index k of the strategy      *)
(* delay taken (attempt) and the delay the closure had asked for.          *)
(***************************************************************************)
Ev(op, what, ok, cached, attempt, code) ==
  [op |-> op, what |-> what, ok |-> ok, cached |-> cached,
   attempt |-> attempt, code |-> code, ecode |-> NoCode,
   retry_after |-> NoHeader, ms |-> 0, result |-> JNull, json |-> FALSE,
   header |-> NoHeader, reset_in_ms |-> NoHeader, error |-> "",
   errobj |-> FALSE]

WriteEv(status, ok, resp) ==
  [Ev("write", status, ok, resp.cached, resp.attempt, 0)
     EXCEPT !.result = resp.completions]
ProbeEv(what) == Ev("probe", what, what # "err", FALSE, 0, 0)
HttpEv(class, attempt, code) == Ev("http", class, class = "success", FALSE, attempt, code)
SleepEv(k, ms, retry_after) ==
  [Ev("sleep", "backoff", TRUE, FALSE, k, 0)
     EXCEPT !.ms = ms, !.retry_after = retry_after]
SettleEv(kind, ok) == Ev("settle", kind, ok, FALSE, 0, 0)

Ack == "ack"
RejectRequeue == "reject_requeue"
RejectDrop == "reject"
SettleKinds == {Ack, RejectRequeue, RejectDrop}

RECURSIVE CountOp(_, _)
CountOp(log, op) ==
  IF log = <<>> THEN 0
  ELSE (IF Head(log).op = op THEN 1 ELSE 0) + CountOp(Tail(log), op)

OpsOf(log, op) == SelectSeq(log, LAMBDA e : e.op = op)

IdleTask ==
  [pc |-> "idle", msg |-> 0, sess |-> 0, log |-> <<>>, resp |-> EmptyResponse,
   started_at |-> 0, attempt |-> 0, delays |-> 0, retry_after |-> NoHeader,
   status_at_return |-> "none"]

\* the task run_consumer spawns on delivery d in session s
SpawnedTask(d, s) == [IdleTask EXCEPT !.pc = "parse", !.msg = d, !.sess = s]

\* a task whose future has ended
DoneTask == [IdleTask EXCEPT !.pc = "done"]

Running(t) == tasks[t].pc \notin {"idle", "done"}


(***************************************************************************)
(* call_llm (llm_wrapper.rs): what one upstream answer looks like, how     *)
(* one attempt classifies it, and how Retry::spawn drives the attempts.    *)
(***************************************************************************)
\* net: how client.post(..).send() ended; status: the HTTP status;
\* retry_after: the Retry-After header in seconds; json: whether the body
\* parses; err: where the body carries an error object; code: error.code;
\* reset_in_ms: X-RateLimit-Reset minus the current time; body: the parsed
\* body
Resp(net, status, retry_after, json, err, code, reset_in_ms, body) ==
  [net |-> net, status |-> status, retry_after |-> retry_after, json |-> json,
   err |-> err, code |-> code, reset_in_ms |-> reset_in_ms, body |-> body]

TransportErrors ==
  {Resp(n, 0, NoHeader, FALSE, "none", NoCode, NoHeader, JNull) :
     n \in {"timeout", "connect", "other"}}

HttpErrors ==
  {Resp("ok", st, NoHeader, FALSE, "none", NoCode, NoHeader, JNull) :
     st \in {401, 404, 500, 503}}
  \cup {Resp("ok", 429, ra, FALSE, "none", NoCode, NoHeader, JNull) :
          ra \in {NoHeader, 7}}

BodyErrors ==
  {Resp("ok", 200, NoHeader, TRUE, loc, c, NoHeader, JObj("error")) :
     loc \in {"top", "completions"}, c \in {400, 500, NoCode}}
  \cup {Resp("ok", 200, NoHeader, TRUE, "top", 429, r, JObj("error")) :
          r \in {NoHeader, 0 - 500, 500, 2500}}

Successes ==
  {Resp("ok", 200, NoHeader, TRUE, "none", NoCode, NoHeader, b) :
     b \in {JObj("x1"), JStr("text")}}
  \cup {Resp("ok", 200, NoHeader, FALSE, "none", NoCode, NoHeader, JNull)}

Responses == TransportErrors \cup HttpErrors \cup BodyErrors \cup Successes

\* the answers that carry no rate-limit hint, with one status for the 5xx
\* arm: every class of outcome and every branch of the closure but the two
\* that compute a delay
PlainResponses ==
  {r \in Responses : r.retry_after = NoHeader /\ r.code # 429 /\ r.status # 503}

\* one answer of each kind process_message can tell apart: a transient
\* failure, a permanent failure, a completion
CoreResponses ==
  {Resp("ok", st, NoHeader, FALSE, "none", NoCode, NoHeader, JNull) : st \in {401, 500}}
  \cup {Resp("ok", 200, NoHeader, TRUE, "none", NoCode, NoHeader, JObj("x1"))}

\* the three ways one attempt of the closure ends: Ok(LLMResponse),
\* RetryError::transient / retry_after, RetryError::permanent
Success == "success"
Transient == "transient"
Permanent == "permanent"

Outcome(class, retry_after, completions) ==
  [class |-> class, retry_after |-> retry_after, completions |-> completions]

\* the delay computed from X-RateLimit-Reset for a body-level 429
ResetDelay(reset_in_ms) ==
  IF reset_in_ms = NoHeader THEN 2
  ELSE IF reset_in_ms > 0 THEN (reset_in_ms \div 1000) + 1 ELSE 2

\* line 179: raw_response.get("error").or_else(|| completions.error) is
\* Some on a 2xx answer whose body parsed
HasErrorObject(r) ==
  /\ r.net = "ok"
  /\ r.status >= 200 /\ r.status < 300
  /\ r.json
  /\ r.err # "none"

\* a closure that fails on every error object, with or without a code
ClassifyStatusStrict(r) ==
  IF r.status = 401 THEN Outcome(Permanent, NoHeader, JNull)
  ELSE IF r.status = 429
    THEN Outcome(Transient, IF r.retry_after = NoHeader THEN 2 ELSE r.retry_after, JNull)
  ELSE IF ~(r.status >= 200 /\ r.status < 300)
    THEN (IF r.status >= 500 /\ r.status < 600
            THEN Outcome(Transient, NoHeader, JNull)
            ELSE Outcome(Permanent, NoHeader, JNull))
  ELSE IF ~r.json THEN Outcome(Permanent, NoHeader, JNull)
  ELSE IF r.err # "none"
    THEN (IF r.code = 429
            THEN Outcome(Transient, ResetDelay(r.reset_in_ms), JNull)
          ELSE IF r.code >= 500 /\ r.code < 600
            THEN Outcome(Transient, NoHeader, JNull)
            ELSE Outcome(Permanent, NoHeader, JNull))
  ELSE Outcome(Success, NoHeader, r.body)

\* the error object of a parsed body: classification by error.code
ClassifyBodyError(r) ==
  IF r.code = 429 THEN Outcome(Transient, ResetDelay(r.reset_in_ms), JNull)
  ELSE IF r.code >= 500 /\ r.code < 600 THEN Outcome(Transient, NoHeader, JNull)
  ELSE Outcome(Permanent, NoHeader, JNull)

\* match response.status() { ... } of the closure
ClassifyStatus(r) ==
  IF r.status = 401 THEN Outcome(Permanent, NoHeader, JNull)
  ELSE IF r.status = 429
    THEN Outcome(Transient, IF r.retry_after = NoHeader THEN 2 ELSE r.retry_after, JNull)
  ELSE IF ~(r.status >= 200 /\ r.status < 300)
    THEN (IF r.status >= 500 /\ r.status < 600
            THEN Outcome(Transient, NoHeader, JNull)
            ELSE Outcome(Permanent, NoHeader, JNull))
  ELSE IF ~r.json THEN Outcome(Permanent, NoHeader, JNull)
  ELSE IF r.err # "none" /\ r.code # NoCode THEN ClassifyBodyError(r)
  ELSE Outcome(Success, NoHeader, r.body)

\* how the message of the error the closure returns on the answer r
\* begins ("" when it returns Ok)
ErrorMessage(r) ==
  IF r.net # "ok" THEN "Request error"                               \* 92, 97
  ELSE IF r.status = 401 THEN "Authentication error"                 \* 119
  ELSE IF r.status = 429 THEN "Rate limit exceeded"                  \* 139
  ELSE IF ~(r.status >= 200 /\ r.status < 300)
    THEN (IF r.status >= 500 /\ r.status < 600
            THEN "Server error" ELSE "Client error")                 \* 159, 164
  ELSE IF ~r.json THEN "JSON parsing error"                          \* 174
  ELSE IF r.err # "none" /\ r.code # NoCode
    THEN (IF r.code = 429 THEN "Rate limit exceeded"                 \* 218
          ELSE IF r.code >= 500 /\ r.code < 600
            THEN "Server error" ELSE "Client error")                 \* 239, 244
  ELSE ""

\* one run of the closure on the answer r
Classify(r) ==
  IF r.net = "ok" THEN ClassifyStatus(r)
  ELSE IF r.net \in {"timeout", "connect"}
    THEN Outcome(Transient, NoHeader, JNull)
    ELSE Outcome(Permanent, NoHeader, JNull)

\* the retry strategy: ExponentialFactorBackoff ... .take(retry_attempts)
\* yields this many delays
StrategyLen(n) == n

RECURSIVE Pow2(_)
Pow2(k) == IF k = 0 THEN 1 ELSE 2 * Pow2(k - 1)

Min(a, b) == IF a <= b THEN a ELSE b
Max(a, b) == IF a >= b THEN a ELSE b

\* ExponentialFactorBackoff::from_millis(base_delay_ms, 2.0)
\*   .max_delay(Duration::from_secs(max_delay_secs)): the k-th delay it
\* yields, in milliseconds; the cap is part of the iterator
BackoffDelay(k) == Min(base_delay_ms * Pow2(k), max_delay_secs * 1000)

\* tokio_retry2::strategy::jitter multiplies a delay by a random factor of
\* [0.5, 1.5); the factors tried, in hundredths
Jitters == {50, 149}
jitter(d, j) == (d * j) \div 100

\* .map(jitter): the k-th delay of retry_strategy under the factor j; the
\* jitter is applied to what the capped iterator yields
StrategyDelay(k, j) == jitter(BackoffDelay(k), j)

\* Retry::spawn, the sleep before the retry: the delay the error carries
\* (RetryError::retry_after, in seconds) when it carries one, else the
\* delay taken from the strategy
SleepFor(retry_after, strategy_delay) ==
  IF retry_after = NoHeader THEN strategy_delay ELSE retry_after * 1000

\* a retry loop that does not tell permanent errors from transient ones
RetryDecisionRetryingPermanent(class, delays) ==
  IF class = Success THEN "return_ok"
  ELSE IF delays > 0 THEN "retry" ELSE "return_err"

\* Retry::spawn after an attempt: a success or a permanent error returns,
\* a transient error takes the next delay of the strategy and retries, and
\* returns the error when the strategy is used up
RetryDecision(class, delays) ==
  IF class = Success THEN "return_ok"
  ELSE IF class = Permanent THEN "return_err"
  ELSE IF delays > 0 THEN "retry" ELSE "return_err"


(***************************************************************************)
(* The broker's side of delivery.ack / delivery.reject.                    *)
(***************************************************************************)
\* the broker takes a settlement only on the open channel the delivery
\* came on; otherwise ack / reject returns an error, which is logged
SettleAccepted(s, d) == chanOpen[s] /\ d \in unacked[s]

QueueAfterSettle(kind, s, d) ==
  IF SettleAccepted(s, d) /\ kind = RejectRequeue THEN queue \cup {d} ELSE queue

UnackedAfterSettle(s, d) ==
  IF SettleAccepted(s, d) THEN [unacked EXCEPT ![s] = @ \ {d}] ELSE unacked

(***************************************************************************)
(* process_message (main.rs), one action per await.                        *)
(***************************************************************************)
Logged(t, e) == Append(tasks[t].log, e)

\* the status of the row of message id, as a reader of the store sees it
RowStatus(ev, id) == IF id \in DOMAIN ev THEN ev[id].status ELSE "none"

\* process_message returns, log being what it did; status_at_return is
\* what the store holds for its message at that moment
Return(t, log) ==
  tasks' = [tasks EXCEPT ![t].pc = "returned", ![t].log = log,
                         ![t].status_at_return =
                            RowStatus(events, MessageIdOf(tasks[t].msg))]

\* a reject with requeue whose return is missing: the run goes on to the ack
SettleAndFallThrough(t, kind) ==
  LET d == tasks[t].msg
      s == tasks[t].sess
      first == Logged(t, SettleEv(kind, SettleAccepted(s, d)))
  IN /\ queue' = QueueAfterSettle(kind, s, d)
     /\ unacked' = UnackedAfterSettle(s, d)
     /\ Return(t, IF kind = RejectRequeue
                    THEN Append(first, SettleEv(Ack, FALSE)) ELSE first)

\* delivery.ack / delivery.reject of kind, then process_message returns
SettleAndReturn(t, kind) ==
  LET d == tasks[t].msg
      s == tasks[t].sess
  IN /\ queue' = QueueAfterSettle(kind, s, d)
     /\ unacked' = UnackedAfterSettle(s, d)
     /\ Return(t, Logged(t, SettleEv(kind, SettleAccepted(s, d))))

\* a malformed delivery put back on the queue
ParseSettlementRequeue == RejectRequeue
\* the settlement of a delivery that does not parse (line 212)
ParseSettlement == RejectDrop

\* lines 207-224: parse the delivery; a malformed one is rejected
\* without requeue; started_at is the time after a successful parse
Parse(t) ==
  /\ tasks[t].pc = "parse"
  /\ IF Deliveries[tasks[t].msg].parse
       THEN /\ tasks' = [tasks EXCEPT ![t].pc = "mark_processing",
                                      ![t].started_at = clock]
            /\ UNCHANGED <<queue, unacked>>
       ELSE SettleAndReturn(t, ParseSettlement)
  /\ UNCHANGED <<disp, session, chanOpen, permits, held, ntasks,
                 events, clock, last_call, qos>>

\* a PROCESSING write whose failure is logged and not returned on
MarkProcessingIgnoringFailure(t) ==
  /\ tasks[t].pc = "mark_processing"
  /\ \E ok \in BOOLEAN :
       /\ events' = IF ok
                      THEN update_event_status(events, MessageIdOf(tasks[t].msg),
                                               Processing, EmptyResponse,
                                               tasks[t].started_at, clock)
                      ELSE events
       /\ tasks' = [tasks EXCEPT
                      ![t].pc = "cache_probe",
                      ![t].log = Logged(t, WriteEv(Processing, ok, EmptyResponse))]
  /\ UNCHANGED <<disp, session, chanOpen, permits, held, queue,
                 unacked, ntasks, clock, last_call, qos>>

\* lines 226-242: the PROCESSING write; when it fails the task returns
\* without settling
MarkProcessing(t) ==
  /\ tasks[t].pc = "mark_processing"
  /\ \E ok \in BOOLEAN :
       LET log == Logged(t, WriteEv(Processing, ok, EmptyResponse))
       IN IF ok
            THEN /\ events' = update_event_status(events, MessageIdOf(tasks[t].msg),
                                                  Processing, EmptyResponse,
                                                  tasks[t].started_at, clock)
                 /\ tasks' = [tasks EXCEPT ![t].pc = "cache_probe", ![t].log = log]
            ELSE /\ UNCHANGED events
                 /\ Return(t, log)
  /\ UNCHANGED <<disp, session, chanOpen, permits, held, queue,
                 unacked, ntasks, clock, last_call, qos>>

\* lines 271-284 and llm_wrapper.rs 46-52: the call starts with the
\* attempt counter at 0 and the whole strategy ahead
StartCall(t, log) ==
  [tasks[t] EXCEPT !.pc = "call_llm", !.log = log, !.attempt = 0,
                   !.delays = StrategyLen(retry_attempts)]

\* a cache probe whose store error is surfaced as a failure of the message
\* instead of being taken for a miss
CacheProbeErrorFails(t) ==
  /\ tasks[t].pc = "cache_probe"
  /\ LET hits == get_cached_completion(events, BodyHashOf(tasks[t].msg))
     IN \/ tasks' = [tasks EXCEPT ![t].pc = "failed_write",
                                  ![t].log = Logged(t, ProbeEv("err"))]
        \/ /\ hits = {}
           /\ tasks' = [tasks EXCEPT ![t] = StartCall(t, Logged(t, ProbeEv("miss")))]
        \/ \E r \in hits :
             tasks' = [tasks EXCEPT ![t].pc = "cache_write", ![t].resp = r,
                                    ![t].log = Logged(t, ProbeEv("hit"))]
  /\ UNCHANGED <<disp, session, chanOpen, permits, held, queue,
                 unacked, ntasks, events, clock, last_call, qos>>

\* line 245: the cache probe; only Ok(Some(_)) takes the cache path
CacheProbe(t) ==
  /\ tasks[t].pc = "cache_probe"
  /\ LET hits == get_cached_completion(events, BodyHashOf(tasks[t].msg))
     IN \/ tasks' = [tasks EXCEPT ![t] = StartCall(t, Logged(t, ProbeEv("err")))]
        \/ /\ hits = {}
           /\ tasks' = [tasks EXCEPT ![t] = StartCall(t, Logged(t, ProbeEv("miss")))]
        \/ \E r \in hits :
             tasks' = [tasks EXCEPT ![t].pc = "cache_write", ![t].resp = r,
                                    ![t].log = Logged(t, ProbeEv("hit"))]
  /\ UNCHANGED <<disp, session, chanOpen, permits, held, queue,
                 unacked, ntasks, events, clock, last_call, qos>>

\* where the task goes after a terminal write
AfterCacheWrite(ok) == IF ok THEN "cache_ack" ELSE "cache_requeue"
AfterCompletedWrite(ok) == IF ok THEN "llm_ack" ELSE "llm_requeue"
\* a FAILED write whose failure requeues, as the COMPLETED one does
AfterFailedWriteRequeue(ok) == IF ok THEN "failed_ack" ELSE "llm_requeue"
AfterFailedWrite(ok) == "failed_ack"

\* a terminal write of status with response resp that ends ok or not, then
\* on to pc next
TerminalWrite(t, status, resp, ok, next) ==
  /\ events' = IF ok
                 THEN update_event_status(events, MessageIdOf(tasks[t].msg), status,
                                          resp, tasks[t].started_at, clock)
                 ELSE events
  /\ tasks' = [tasks EXCEPT ![t].pc = next,
                            ![t].log = Logged(t, WriteEv(status, ok, resp))]

\* lines 248-256: the COMPLETED write of the cache path
CacheWrite(t) ==
  /\ tasks[t].pc = "cache_write"
  /\ \E ok \in BOOLEAN :
       TerminalWrite(t, Completed, tasks[t].resp, ok, AfterCacheWrite(ok))
  /\ UNCHANGED <<disp, session, chanOpen, permits, held, queue,
                 unacked, ntasks, clock, last_call, qos>>

\* lines 288-296: the COMPLETED write after call_llm returned Ok
CompletedWrite(t) ==
  /\ tasks[t].pc = "completed_write"
  /\ \E ok \in BOOLEAN :
       TerminalWrite(t, Completed, tasks[t].resp, ok, AfterCompletedWrite(ok))
  /\ UNCHANGED <<disp, session, chanOpen, permits, held, queue,
                 unacked, ntasks, clock, last_call, qos>>

\* the response process_message passes with FAILED (lines 327-331)
FailedResponse(t) == EmptyResponse

\* lines 321-337: the FAILED write after call_llm returned Err
FailedWrite(t) ==
  /\ tasks[t].pc = "failed_write"
  /\ \E ok \in BOOLEAN :
       TerminalWrite(t, Failed, FailedResponse(t), ok, AfterFailedWrite(ok))
  /\ UNCHANGED <<disp, session, chanOpen, permits, held, queue,
                 unacked, ntasks, clock, last_call, qos>>

\* the attempt index read after the increment instead of before it
StampedAttemptAfterIncrement(current_attempt) == current_attempt + 1
\* line 256: the response carries current_attempt, the value fetch_add
\* returned
StampedAttempt(current_attempt) == current_attempt

\* llm_wrapper.rs 54-260: one attempt of the closure (the request and the
\* classification of its answer r) and what Retry::spawn does with it
AfterAttempt(task, r) ==
  LET o == Classify(r)
      current_attempt == task.attempt
      log == Append(task.log, [HttpEv(o.class, current_attempt, r.status)
                                 EXCEPT !.ecode = r.code, !.json = r.json,
                                        !.header = r.retry_after,
                                        !.error = ErrorMessage(r),
                                        !.errobj = HasErrorObject(r),
                                        !.reset_in_ms = r.reset_in_ms,
                                        !.retry_after = o.retry_after])
      dec == RetryDecision(o.class, task.delays)
  IN IF dec = "return_ok"
       THEN [task EXCEPT !.pc = "completed_write", !.log = log,
                         !.attempt = current_attempt + 1,
                         !.resp = LLMResponse(o.completions, FALSE,
                                              StampedAttempt(current_attempt))]
     ELSE IF dec = "return_err"
       THEN [task EXCEPT !.pc = "failed_write", !.log = log,
                         !.attempt = current_attempt + 1]
       ELSE [task EXCEPT !.pc = "backoff", !.log = log,
                         !.attempt = current_attempt + 1,
                         !.delays = @ - 1,
                         !.retry_after = o.retry_after]

\* an attempt whose answer is one of upstream
HttpAttempt(t, upstream) ==
  /\ tasks[t].pc = "call_llm"
  /\ \E r \in upstream : tasks' = [tasks EXCEPT ![t] = AfterAttempt(tasks[t], r)]
  /\ UNCHANGED <<disp, session, chanOpen, permits, held, queue,
                 unacked, ntasks, events, clock, last_call, qos>>

\* the sleep Retry::spawn takes between two attempts: the strategy yields
\* its next delay (the k-th, under one of the jitter factors of jitters)
\* and the task sleeps for that or for the delay the error asked for
Backoff(t, jitters) ==
  /\ tasks[t].pc = "backoff"
  /\ \E j \in jitters :
       LET k == StrategyLen(retry_attempts) - tasks[t].delays - 1
           ms == SleepFor(tasks[t].retry_after, StrategyDelay(k, j))
       IN tasks' = [tasks EXCEPT ![t].pc = "call_llm",
                                 ![t].log = Logged(t, SleepEv(k, ms, tasks[t].retry_after))]
  /\ UNCHANGED <<disp, session, chanOpen, permits, held, queue,
                 unacked, ntasks, events, clock, last_call, qos>>

\* the failure path rejecting instead of acking
SettlementAtFailedReject(pc) ==
  IF pc \in {"cache_ack", "llm_ack"} THEN Ack
  ELSE IF pc \in {"cache_requeue", "llm_requeue"} THEN RejectRequeue
  ELSE RejectDrop

\* the settlement process_message issues at each of its settling points
SettlementAt(pc) ==
  IF pc = "cache_ack" THEN Ack                      \* line 265
  ELSE IF pc = "cache_requeue" THEN RejectRequeue   \* line 259
  ELSE IF pc = "llm_ack" THEN Ack                   \* line 306
  ELSE IF pc = "llm_requeue" THEN RejectRequeue     \* line 313
  ELSE Ack                                          \* line 339

SettlePoints == {"cache_ack", "cache_requeue", "llm_ack", "llm_requeue", "failed_ack"}

\* a failure path that forgets its ack (the ack of line 339 left out)
SettleUnlessFailed(t) ==
  /\ tasks[t].pc \in SettlePoints
  /\ IF tasks[t].pc = "failed_ack"
       THEN Return(t, tasks[t].log) /\ UNCHANGED <<queue, unacked>>
       ELSE SettleAndReturn(t, SettlementAt(tasks[t].pc))
  /\ UNCHANGED <<disp, session, chanOpen, permits, held, ntasks,
                 events, clock, last_call, qos>>

\* delivery.ack / delivery.reject after a terminal write
Settle(t) ==
  /\ tasks[t].pc \in SettlePoints
  /\ SettleAndReturn(t, SettlementAt(tasks[t].pc))
  /\ UNCHANGED <<disp, session, chanOpen, permits, held, ntasks,
                 events, clock, last_call, qos>>

\* a task that ends without giving its permit back
DropPermitLeaking(t) ==
  /\ tasks[t].pc = "returned"
  /\ tasks' = [tasks EXCEPT ![t] = DoneTask]
  /\ UNCHANGED <<disp, session, chanOpen, permits, held, queue, unacked,
                 ntasks, events, clock, last_call, qos>>

\* run_consumer line 166: the spawned future drops its permit and ends
DropPermit(t) ==
  /\ tasks[t].pc = "returned"
  /\ permits' = [permits EXCEPT ![tasks[t].sess] = @ + 1]
  /\ tasks' = [tasks EXCEPT ![t] = DoneTask]
  /\ UNCHANGED <<disp, session, chanOpen, held, queue, unacked,
                 ntasks, events, clock, last_call, qos>>

(***************************************************************************)
(* The dispatcher: main's reconnect loop and run_consumer.                 *)
(***************************************************************************)
\* the prefetch count basic_qos receives: max_parallel_tasks as u16
PrefetchOf(n) == n % PrefetchModulus

Prefetch == PrefetchOf(max_parallel_tasks)

\* the broker holds deliveries back once prefetch of them are unsettled on
\* the channel; a prefetch of 0 means no limit
BrokerMayDeliver(s) == Prefetch = 0 \/ Cardinality(unacked[s]) < Prefetch

\* the channel of session s goes away: the broker requeues what was
\* outstanding on it
CloseSession(s) ==
  /\ chanOpen' = [chanOpen EXCEPT ![s] = FALSE]
  /\ queue' = queue \cup unacked[s]
  /\ unacked' = [unacked EXCEPT ![s] = {}]
  /\ held' = 0

\* establish_rabbitmq_connection: loops (sleeping 5 s) until it connects
Connect ==
  /\ disp = "connect"
  /\ \E ok \in BOOLEAN :
       disp' = IF ok THEN "create_channel" ELSE "connect_sleep"
  /\ UNCHANGED <<session, chanOpen, permits, held, queue, unacked,
                 ntasks, tasks, events, clock, last_call, qos>>

\* the 5 s sleep inside establish_rabbitmq_connection (line 196)
ConnectSleep ==
  /\ disp = "connect_sleep"
  /\ disp' = "connect"
  /\ UNCHANGED <<session, chanOpen, permits, held, queue, unacked,
                 ntasks, tasks, events, clock, last_call, qos>>

\* main, lines 88-101: conn.create_channel()
CreateChannel ==
  /\ disp = "create_channel"
  /\ \/ /\ session < MaxSessions
        /\ session' = session + 1
        /\ chanOpen' = [chanOpen EXCEPT ![session + 1] = TRUE]
        /\ disp' = "basic_qos"
     \/ /\ disp' = "sleep"
        /\ UNCHANGED <<session, chanOpen>>
  /\ UNCHANGED <<permits, held, queue, unacked, ntasks, tasks,
                 events, clock, last_call, qos>>

\* run_consumer, lines 118-134: basic_qos and queue_declare; an error of
\* either ends run_consumer
SetupStep(from, to) ==
  /\ disp = from
  /\ \/ /\ disp' = to
        /\ UNCHANGED <<chanOpen, held, queue, unacked>>
     \/ /\ disp' = "sleep"
        /\ CloseSession(session)
  /\ UNCHANGED <<session, permits, ntasks, tasks, events, clock, last_call, qos>>

BasicQos == SetupStep("basic_qos", "queue_declare")

QueueDeclare == SetupStep("queue_declare", "basic_consume")

\* the capacity of the semaphore run_consumer creates (line 142)
SemaphoreCapacity == max_parallel_tasks

\* lines 136-151: the store client, a fresh semaphore, basic_consume
BasicConsume ==
  /\ disp = "basic_consume"
  /\ permits' = [permits EXCEPT ![session] = SemaphoreCapacity]
  /\ \/ /\ disp' = "next"
        /\ UNCHANGED <<chanOpen, held, queue, unacked>>
     \/ /\ disp' = "sleep"
        /\ CloseSession(session)
  /\ UNCHANGED <<session, ntasks, tasks, events, clock, last_call, qos>>


\* line 158, Some(Ok(delivery)): the broker hands over a ready delivery
ConsumerNext ==
  /\ disp = "next"
  /\ ntasks < MaxTasks
  /\ BrokerMayDeliver(session)
  /\ \E d \in queue :
       /\ held' = d
       /\ queue' = queue \ {d}
       /\ unacked' = [unacked EXCEPT ![session] = @ \cup {d}]
  /\ disp' = "acquire"
  /\ UNCHANGED <<session, chanOpen, permits, ntasks, tasks, events,
                 clock, last_call, qos>>

\* lines 158-159, Some(Err(_)): the stream fails, run_consumer returns Err
\* and main sleeps 5 s
StreamError ==
  /\ disp = "next"
  /\ CloseSession(session)
  /\ disp' = "sleep"
  /\ UNCHANGED <<session, permits, ntasks, tasks, events, clock, last_call, qos>>

\* lines 158 and 171, None: the stream ends, run_consumer returns Ok(())
\* and main's loop starts over at once
StreamEnd ==
  /\ disp = "next"
  /\ CloseSession(session)
  /\ disp' = "connect"
  /\ UNCHANGED <<session, permits, ntasks, tasks, events, clock, last_call, qos>>

\* lines 160-168: take a permit of this session's semaphore and spawn
\* process_message on the delivery
Spawn ==
  /\ disp = "acquire"
  /\ permits[session] > 0
  /\ ntasks < MaxTasks
  /\ permits' = [permits EXCEPT ![session] = @ - 1]
  /\ ntasks' = ntasks + 1
  /\ tasks' = [tasks EXCEPT ![ntasks + 1] = SpawnedTask(held, session)]
  /\ held' = 0
  /\ disp' = "next"
  /\ UNCHANGED <<session, chanOpen, queue, unacked, events, clock, last_call, qos>>

\* main, lines 93, 99: the 5 s sleep before reconnecting
ReconnectSleep ==
  /\ disp = "sleep"
  /\ disp' = "connect"
  /\ UNCHANGED <<session, chanOpen, permits, held, queue, unacked,
                 ntasks, tasks, events, clock, last_call, qos>>

\* no direct call of the store adapter has been made
NoCall == [n |-> 0]

\* qos while the dispatcher and the tasks are followed one by one
NoPrefetch == -1
NoQos == [configured |-> 0, prefetch |-> NoPrefetch, permits |-> 0,
          held |-> 0, unacked |-> 0, running |-> 0, settled |-> 0]

Init ==
  /\ disp = "connect"
  /\ session = 0
  /\ chanOpen = [s \in Sessions |-> FALSE]
  /\ permits = [s \in Sessions |-> 0]
  /\ held = 0
  /\ queue = CoreDeliveryIds
  /\ unacked = [s \in Sessions |-> {}]
  /\ ntasks = 0
  /\ tasks = [t \in Tasks |-> IdleTask]
  /\ events = InitialEvents
  /\ clock = 0
  /\ last_call = NoCall
  /\ qos = NoQos

Next ==
  \/ Connect
  \/ ConnectSleep
  \/ CreateChannel
  \/ BasicQos
  \/ QueueDeclare
  \/ BasicConsume
  \/ ConsumerNext
  \/ StreamError
  \/ StreamEnd
  \/ Spawn
  \/ ReconnectSleep
  \/ \E t \in Tasks : Parse(t)
  \/ \E t \in Tasks : MarkProcessing(t)
  \/ \E t \in Tasks : CacheProbe(t)
  \/ \E t \in Tasks : CacheWrite(t)
  \/ \E t \in Tasks : HttpAttempt(t, CoreResponses)
  \/ \E t \in Tasks : Backoff(t, {100})
  \/ \E t \in Tasks : CompletedWrite(t)
  \/ \E t \in Tasks : FailedWrite(t)
  \/ \E t \in Tasks : Settle(t)
  \/ \E t \in Tasks : DropPermit(t)

Spec == Init /\ [][Next]_vars


(***************************************************************************)
(* One process_message run on its own: the dispatcher has just spawned     *)
(* the first task of the first session on some delivery; the store holds   *)
(* what the producer and earlier consumer processes left in it; the        *)
(* upstream may answer anything; the stream may fail under the task.       *)
(***************************************************************************)
\* a row an earlier run completed with completions c
CompletedRow(h, c) ==
  [InitialRow(h) EXCEPT !.status = Completed, !.started_at = 0,
                        !.completed_at = 0, !.duration = 0, !.result = c]

\* the row of m2 is there, pending or completed; the row of m1 is pending,
\* or missing (the producer has not written it)
Stores ==
  {[id \in ids |-> IF id = "m1" THEN InitialRow("h1") ELSE r2] :
     ids \in {{"m1", "m2"}, {"m2"}},
     r2 \in {InitialRow("h1"), CompletedRow("h1", JObj("x1")),
             CompletedRow("h1", JStr("text"))}}

\* the stores a run on delivery d starts from: whether the PENDING row of
\* m1 exists is felt by the run on m1 alone (no other run writes it, and
\* the cache probe returns COMPLETED rows only)
RunStores(d) ==
  {store \in Stores : MessageIdOf(d) = "m1" \/ "m1" \in DOMAIN store}

InitRun ==
  \E d \in DeliveryIds : \E store \in RunStores(d) :
    /\ disp = "next"
    /\ session = 1
    /\ chanOpen = [s \in Sessions |-> s = 1]
    /\ permits = [s \in Sessions |-> IF s = 1 THEN SemaphoreCapacity - 1 ELSE 0]
    /\ held = 0
    /\ queue = DeliveryIds \ {d}
    /\ unacked = [s \in Sessions |-> IF s = 1 THEN {d} ELSE {}]
    /\ ntasks = 1
    /\ tasks = [t \in Tasks |-> IF t = 1 THEN SpawnedTask(d, 1) ELSE IdleTask]
    /\ events = store
    /\ clock = 0
    /\ last_call = NoCall
    /\ qos = NoQos

NextRun ==
  \/ StreamError
  \/ \E t \in Tasks : Parse(t)
  \/ \E t \in Tasks : MarkProcessing(t)
  \/ \E t \in Tasks : CacheProbe(t)
  \/ \E t \in Tasks : CacheWrite(t)
  \/ \E t \in Tasks : HttpAttempt(t, PlainResponses)
  \/ \E t \in Tasks : Backoff(t, {100})
  \/ \E t \in Tasks : CompletedWrite(t)
  \/ \E t \in Tasks : FailedWrite(t)
  \/ \E t \in Tasks : Settle(t)
  \/ \E t \in Tasks : DropPermit(t)

SpecRun == InitRun /\ [][NextRun]_vars

(***************************************************************************)
(* One call_llm on its own: the first task has written PROCESSING for the  *)
(* first delivery, missed the cache and enters call_llm; the upstream may  *)
(* answer anything and every sleep may draw any jitter factor.             *)
(***************************************************************************)
InitCall ==
  /\ disp = "next"
  /\ session = 1
  /\ chanOpen = [s \in Sessions |-> s = 1]
  /\ permits = [s \in Sessions |-> IF s = 1 THEN SemaphoreCapacity - 1 ELSE 0]
  /\ held = 0
  /\ queue = DeliveryIds \ {1}
  /\ unacked = [s \in Sessions |-> IF s = 1 THEN {1} ELSE {}]
  /\ ntasks = 1
  /\ tasks = [t \in Tasks |->
               IF t = 1
                 THEN [SpawnedTask(1, 1) EXCEPT
                         !.pc = "call_llm",
                         !.delays = StrategyLen(retry_attempts),
                         !.log = <<WriteEv(Processing, TRUE, EmptyResponse),
                                   ProbeEv("miss")>>]
                 ELSE IdleTask]
  /\ events = update_event_status(InitialEvents, MessageIdOf(1), Processing,
                                  EmptyResponse, 0, 0)
  /\ clock = 0
  /\ last_call = NoCall
  /\ qos = NoQos

NextCall ==
  \/ \E t \in Tasks : HttpAttempt(t, Responses)
  \/ \E t \in Tasks : Backoff(t, Jitters)
  \/ \E t \in Tasks : CompletedWrite(t)
  \/ \E t \in Tasks : FailedWrite(t)
  \/ \E t \in Tasks : Settle(t)
  \/ \E t \in Tasks : DropPermit(t)

SpecCall == InitCall /\ [][NextCall]_vars


(***************************************************************************)
(* What a run has done, read off its log.                                  *)
(***************************************************************************)
Log(t) == tasks[t].log
Settlements(t) == OpsOf(Log(t), "settle")
Writes(t) == OpsOf(Log(t), "write")
Requests(t) == OpsOf(Log(t), "http")
Last(q) == q[Len(q)]
Returned(t) == tasks[t].pc = "returned"
WellFormed(t) == tasks[t].msg \in DeliveryIds /\ Deliveries[tasks[t].msg].parse
Malformed(t) == tasks[t].msg \in DeliveryIds /\ ~Deliveries[tasks[t].msg].parse
Terminal == {Completed, Failed}

\* the run ended with a positive ack
Acked(t) == Returned(t) /\ Settlements(t) # <<>> /\ Last(Settlements(t)).what = Ack

\* call_llm has returned an error: its last attempt did not succeed and
\* the run is past the call
CallFailed(t) ==
  /\ tasks[t].pc \in {"failed_write", "failed_ack", "returned"}
  /\ Requests(t) # <<>>
  /\ Last(Requests(t)).what # Success

\* call_llm has returned a response
CallSucceeded(t) ==
  /\ tasks[t].pc \in {"completed_write", "llm_ack", "llm_requeue", "returned"}
  /\ Requests(t) # <<>>
  /\ Last(Requests(t)).what = Success

\* the cache probe of the run was a hit
CacheHit(t) == \E i \in 1..Len(Log(t)) : Log(t)[i] = ProbeEv("hit")

\* C1: on every path of process_message, whatever the store writes, the
\* probe and the upstream call did, at most one settlement is issued on the
\* delivery.
C1_AtMostOneSettlement ==
  \A t \in Tasks : Len(Settlements(t)) <= 1

\* C1 witness: a run that returned having settled once after a store write
\* failed.
C1_Witness ==
  \E t \in Tasks :
    /\ Returned(t)
    /\ Len(Settlements(t)) = 1
    /\ \E i \in 1..Len(Writes(t)) : ~Writes(t)[i].ok

\* C2 as stated: every run of process_message that returns has issued a
\* settlement, the paths where a store write fails included.
C2_EveryRunSettles ==
  \A t \in Tasks : Returned(t) => Len(Settlements(t)) >= 1

\* the run is the one that stopped at a failed PROCESSING write
ProcessingWriteFailed(t) ==
  Log(t) = <<WriteEv(Processing, FALSE, EmptyResponse)>>

\* C2 amended: a run that returns has issued exactly one settlement, unless
\* its initial PROCESSING write failed; then it has issued none. The paths
\* where a terminal write fails do settle.
C2_SettlesUnlessProcessingWriteFailed ==
  \A t \in Tasks :
    Returned(t) =>
      IF ProcessingWriteFailed(t)
        THEN Settlements(t) = <<>>
        ELSE Len(Settlements(t)) = 1 /\ Last(Log(t)).op = "settle"

\* C2 witness: a run whose terminal write failed and which settled and
\* returned.
C2_Witness ==
  \E t \in Tasks :
    /\ Returned(t)
    /\ Len(Settlements(t)) = 1
    /\ \E i \in 1..Len(Writes(t)) :
         Writes(t)[i].what \in Terminal /\ ~Writes(t)[i].ok

\* the process_message runs in progress
InFlight == {t \in Tasks : tasks[t].pc \notin {"idle", "returned", "done"}}

\* C3 as stated: the number of process_message tasks spawned and not yet
\* completed never exceeds max_parallel_tasks, session failures and
\* reconnects included.
C3_InFlightBounded == Cardinality(InFlight) <= max_parallel_tasks


\* C4 as stated: when a well-formed delivery's run ends with a positive ack,
\* the stored record of its message id is COMPLETED or FAILED at the ack,
\* never PROCESSING.
C4_AckedMeansTerminalRecord ==
  \A t \in Tasks :
    (Acked(t) /\ WellFormed(t) /\ MessageIdOf(tasks[t].msg) \in DOMAIN events)
      => tasks[t].status_at_return \in Terminal

\* C4 amended: when a well-formed delivery's run ends with a positive ack,
\* the last store write it attempted before the ack was a terminal one
\* (COMPLETED or FAILED), and if that write succeeded the record of its
\* message id, when there is one, is COMPLETED or FAILED at the ack (no
\* other delivery of the same message id being processed meanwhile).
C4_AckedAfterTerminalWrite ==
  \A t \in Tasks :
    (Acked(t) /\ WellFormed(t)) =>
      /\ Writes(t) # <<>>
      /\ Last(Writes(t)).what \in Terminal
      /\ Log(t)[Len(Log(t)) - 1] = Last(Writes(t))
      /\ Last(Writes(t)).ok => tasks[t].status_at_return \in Terminal \cup {"none"}
      /\ (Last(Writes(t)).ok /\ MessageIdOf(tasks[t].msg) \in DOMAIN events)
           => tasks[t].status_at_return \in Terminal

\* C4 witness: an acked run whose terminal write succeeded on an existing
\* row.
C4_Witness ==
  \E t \in Tasks :
    /\ Acked(t) /\ WellFormed(t)
    /\ Last(Writes(t)).ok
    /\ tasks[t].status_at_return \in Terminal

\* the settlement at place i of the log is a reject with requeue
RequeuedAt(t, i) == Log(t)[i].op = "settle" /\ Log(t)[i].what = RejectRequeue

\* C5: a reject with requeue is issued only right after a failed COMPLETED
\* write that follows a cache hit or a successful upstream call, and such a
\* failed write is always followed by it; a malformed delivery and a failed
\* call (permanent, or retries exhausted) are never requeued.
C5_RequeueOnlyAfterFailedCompletedWrite ==
  \A t \in Tasks :
    /\ \A i \in 1..Len(Log(t)) :
         RequeuedAt(t, i) =>
           /\ i > 2
           /\ Log(t)[i - 1].op = "write"
           /\ Log(t)[i - 1].what = Completed
           /\ ~Log(t)[i - 1].ok
           /\ \/ Log(t)[i - 2] = ProbeEv("hit")
              \/ Log(t)[i - 2].op = "http" /\ Log(t)[i - 2].what = Success
           /\ WellFormed(t)
           /\ ~CallFailed(t)
    /\ Returned(t) =>
         ((\E i \in 1..Len(Log(t)) : RequeuedAt(t, i))
            <=> (\E i \in 1..Len(Writes(t)) :
                   Writes(t)[i].what = Completed /\ ~Writes(t)[i].ok))

\* C5 witness: a run requeued after its COMPLETED write failed following a
\* successful upstream call.
C5_Witness ==
  \E t \in Tasks :
    /\ Returned(t)
    /\ CallSucceeded(t)
    /\ RequeuedAt(t, Len(Log(t)))

\* C6: a delivery that does not parse is rejected without requeue, and the
\* run makes no store write, no cache probe and no upstream request: all it
\* ever does is that one reject, and the store stays as it was.
C6_MalformedRejectedUntouched ==
  \A t \in Tasks :
    Malformed(t) =>
      /\ tasks[t].pc \in {"parse", "returned"}
      /\ tasks[t].pc = "parse" => Log(t) = <<>>
      /\ Returned(t) =>
           /\ Len(Log(t)) = 1
           /\ Log(t)[1].op = "settle"
           /\ Log(t)[1].what = RejectDrop
      /\ events \in Stores

\* C6 witness: a malformed delivery whose run has returned.
C6_Witness ==
  \E t \in Tasks : Malformed(t) /\ Returned(t) /\ Len(Settlements(t)) = 1

\* C7: once call_llm has returned an error (a permanent failure or retries
\* used up), the run attempts exactly one FAILED write and no COMPLETED
\* write, and then acks, whether the FAILED write succeeded or not.
C7_FailedCallWritesFailedThenAcks ==
  \A t \in Tasks :
    (CallFailed(t) /\ tasks[t].pc # "failed_write") =>
      /\ Len(Writes(t)) = 2
      /\ Last(Writes(t)).what = Failed
      /\ Writes(t)[1].what = Processing
      /\ Returned(t) =>
           /\ Log(t)[Len(Log(t)) - 1] = Last(Writes(t))
           /\ Last(Log(t)).op = "settle"
           /\ Last(Log(t)).what = Ack
           /\ Len(Settlements(t)) = 1

\* C7 witness: retries used up, the FAILED write failed, the run acked.
C7_Witness ==
  \E t \in Tasks :
    /\ Returned(t)
    /\ CallFailed(t)
    /\ Last(Requests(t)).what = Transient
    /\ ~Last(Writes(t)).ok
    /\ Acked(t)


\* C8: on the cache-hit path the run makes no upstream request; its one
\* terminal write is COMPLETED with cached = TRUE and attempt = 0; and it
\* acks when that write succeeded (and requeues when it failed).
C8_CacheHitPath ==
  \A t \in Tasks :
    CacheHit(t) =>
      /\ Requests(t) = <<>>
      /\ Log(t)[2] = ProbeEv("hit")
      /\ tasks[t].resp.cached /\ tasks[t].resp.attempt = 0
      /\ Len(Writes(t)) <= 2
      /\ Len(Writes(t)) = 2 =>
           /\ Log(t)[3] = Last(Writes(t))
           /\ Last(Writes(t)).what = Completed
           /\ Last(Writes(t)).cached
           /\ Last(Writes(t)).attempt = 0
      /\ Returned(t) =>
           /\ Len(Log(t)) = 4
           /\ Len(Writes(t)) = 2
           /\ Log(t)[4].op = "settle"
           /\ Log(t)[4].what = (IF Log(t)[3].ok THEN Ack ELSE RejectRequeue)

\* C8 witness: a run that hit the cache, wrote COMPLETED and acked, the
\* stored row being flagged cached.
C8_Witness ==
  \E t \in Tasks :
    /\ CacheHit(t) /\ Acked(t)
    /\ Last(Writes(t)).ok
    /\ MessageIdOf(tasks[t].msg) \in DOMAIN events
    /\ events[MessageIdOf(tasks[t].msg)].cached
    /\ events[MessageIdOf(tasks[t].msg)].status = Completed

\* every answer the call has had so far was HTTP 500
Always500(t) == \A i \in 1..Len(Requests(t)) : Requests(t)[i].code = 500

\* C9 as stated: call_llm makes at most retry_attempts requests, and exactly
\* retry_attempts of them before it returns an error from an endpoint that
\* always answers HTTP 500.
C9_AtMostMaxAttemptsRequests ==
  \A t \in Tasks :
    /\ Len(Requests(t)) <= retry_attempts
    /\ (CallFailed(t) /\ Always500(t)) => Len(Requests(t)) = retry_attempts

\* C10: the i-th request of a call runs with attempt index i - 1; and when
\* the call succeeds after k transient failures it has made exactly k + 1
\* requests and the response, and the COMPLETED write made with it, carry
\* attempt = k.
C10_AttemptIsIndexOfSuccess ==
  \A t \in Tasks :
    /\ \A i \in 1..Len(Requests(t)) : Requests(t)[i].attempt = i - 1
    /\ CallSucceeded(t) =>
         LET k == Len(SelectSeq(Requests(t), LAMBDA e : e.what = Transient))
         IN /\ Len(Requests(t)) = k + 1
            /\ \A i \in 1..k : Requests(t)[i].what = Transient
            /\ tasks[t].resp.attempt = k
            /\ ~tasks[t].resp.cached
            /\ Len(Writes(t)) = 2 =>
                 Last(Writes(t)).what = Completed /\ Last(Writes(t)).attempt = k

\* C10 witness: HTTP 500, 500, then 200: three requests, attempt = 2 in
\* the COMPLETED write.
C10_Witness ==
  \E t \in Tasks :
    /\ CallSucceeded(t)
    /\ Len(Requests(t)) = 3
    /\ Requests(t)[1].code = 500 /\ Requests(t)[2].code = 500
    /\ Requests(t)[3].code = 200
    /\ Len(Writes(t)) = 2
    /\ Last(Writes(t)).attempt = 2

(***************************************************************************)
(* The store adapter on its own: update_event_status called directly,      *)
(* again and again, while time passes. last_call remembers the arguments   *)
(* of the latest call, how many times in a row they were used (n), the     *)
(* time of the latest call (at) and the store as the first of these calls  *)
(* left it (first).                                                        *)
(***************************************************************************)
\* the responses a caller passes: the empty one, a completion, a cache hit
CallResponses ==
  {EmptyResponse, LLMResponse(JObj("x1"), FALSE, 1), LLMResponse(JStr("text"), TRUE, 0)}

CallArgs(id, status, resp, started_at) ==
  [id |-> id, status |-> status, resp |-> resp, started_at |-> started_at]

\* Utc::now() moves on
Tick ==
  /\ clock < MaxClock
  /\ clock' = clock + 1
  /\ UNCHANGED <<disp, session, chanOpen, permits, held, queue, unacked,
                 ntasks, tasks, events, last_call, qos>>

\* db.rs 90-141: one successful call of update_event_status at time clock
StoreCall ==
  \E id \in {"m1"}, status \in TaskStatus, resp \in CallResponses,
     started_at \in 0..clock :
    LET args == CallArgs(id, status, resp, started_at)
        after == update_event_status(events, id, status, resp, started_at, clock)
        replay == last_call.n > 0 /\ last_call.args = args
    IN /\ events' = after
       /\ last_call' = [n |-> IF replay THEN 2 ELSE 1, args |-> args, at |-> clock,
                        first |-> IF replay THEN last_call.first ELSE after]
       /\ UNCHANGED <<disp, session, chanOpen, permits, held, queue, unacked,
                      ntasks, tasks, clock, qos>>

InitStore ==
  /\ disp = "connect"
  /\ session = 0
  /\ chanOpen = [s \in Sessions |-> FALSE]
  /\ permits = [s \in Sessions |-> 0]
  /\ held = 0
  /\ queue = {}
  /\ unacked = [s \in Sessions |-> {}]
  /\ ntasks = 0
  /\ tasks = [t \in Tasks |-> IdleTask]
  /\ events \in Stores
  /\ clock = 0
  /\ last_call = NoCall
  /\ qos = NoQos

NextStore == Tick \/ StoreCall

SpecStore == InitStore /\ [][NextStore]_vars

\* the latest call repeated the terminal update made before it
Replayed ==
  /\ last_call.n = 2
  /\ last_call.args.status \in Terminal

\* C15 as stated: update_event_status called a second time with the same
\* message id, terminal status, response and started_at leaves the stored
\* row as the first call left it, and the records are the same ones.
C15_TerminalWriteIdempotent ==
  Replayed => events = last_call.first

\* what of a row does not depend on the time of the write
Timeless(row) == [row EXCEPT !.completed_at = NoTime, !.duration = NoTime]

\* C15 amended: the second call leaves the records the same ones (none is
\* added or removed) and leaves status, started_at, result, cached and
\* body_hash of the row as the first call left them; completed_at and
\* duration are those of the second call: its own time and that time less
\* started_at. Every other row is untouched.
C15_TerminalWriteIdempotentButTimes ==
  Replayed =>
    /\ DOMAIN events = DOMAIN last_call.first
    /\ \A id \in DOMAIN events :
         IF id = last_call.args.id
           THEN /\ Timeless(events[id]) = Timeless(last_call.first[id])
                /\ events[id].status = last_call.args.status
                /\ events[id].completed_at = last_call.at
                /\ events[id].duration = last_call.at - last_call.args.started_at
           ELSE events[id] = last_call.first[id]

\* C15 witness: a terminal update replayed later than it was first made,
\* on a row that exists.
C15_Witness ==
  /\ Replayed
  /\ last_call.args.id \in DOMAIN events
  /\ events[last_call.args.id].completed_at
       > last_call.first[last_call.args.id].completed_at

(***************************************************************************)
(* call_llm: permanent outcomes, sleeps and delays.                        *)
(***************************************************************************)
Sleeps(t) == OpsOf(Log(t), "sleep")

\* the request answered with HTTP 401, another 4xx than 429, or a 2xx
\* whose body is not JSON
Stopper(e) ==
  /\ e.op = "http"
  /\ \/ e.code = 401
     \/ e.code >= 400 /\ e.code < 500 /\ e.code # 429
     \/ e.code >= 200 /\ e.code < 300 /\ ~e.json

\* C11: an attempt answered with HTTP 401, another 4xx than 429 or an
\* unparseable 2xx body is a permanent outcome and the last thing call_llm
\* does: no request and no backoff sleep follows it; when it is attempt 0
\* the call has made exactly one request and has not slept.
C11_PermanentStopsCall ==
  \A t \in Tasks :
    \A i \in 1..Len(Log(t)) :
      Stopper(Log(t)[i]) =>
        /\ Log(t)[i].what = Permanent
        /\ tasks[t].pc \notin {"call_llm", "backoff"}
        /\ \A j \in (i + 1)..Len(Log(t)) : Log(t)[j].op \notin {"http", "sleep"}
        /\ Log(t)[i].attempt = 0 => (Len(Requests(t)) = 1 /\ Sleeps(t) = <<>>)

\* C11 witness: HTTP 401 on attempt 0; the run made one request, did not
\* sleep and has returned.
C11_Witness ==
  \E t \in Tasks :
    /\ Returned(t)
    /\ Len(Requests(t)) = 1
    /\ Requests(t)[1].code = 401
    /\ Requests(t)[1].attempt = 0
    /\ Sleeps(t) = <<>>

\* the sleep at place i + 1 of the log follows the request at place i
SleepAfter(t, i) ==
  /\ i < Len(Log(t))
  /\ Log(t)[i].op = "http"
  /\ Log(t)[i + 1].op = "sleep"

\* the delays the retry strategy may yield as its k-th
StrategyDelays(k) == {StrategyDelay(k, j) : j \in Jitters}

\* C12 as stated: after an attempt answered with HTTP 429 the sleep before
\* the next attempt is max(backoff delay, Retry-After seconds) when the
\* Retry-After header is present and parseable, hence at least that many
\* seconds, and the ordinary backoff delay when the header is absent.
C12_RateLimitSleep ==
  \A t \in Tasks :
    \A i \in 1..Len(Log(t)) :
      (SleepAfter(t, i) /\ Log(t)[i].code = 429) =>
        LET S == Log(t)[i].header
            k == Log(t)[i + 1].attempt
            ms == Log(t)[i + 1].ms
        IN IF S # NoHeader
             THEN /\ ms >= S * 1000
                  /\ \E d \in StrategyDelays(k) : ms = Max(d, S * 1000)
             ELSE ms \in StrategyDelays(k)

\* the row the store holds for the message of run t
RowOf(t) == events[MessageIdOf(tasks[t].msg)]
HasRow(t) == MessageIdOf(tasks[t].msg) \in DOMAIN events

\* C13 as stated: the FAILED write made after call_llm returned an error
\* carries the index of the last attempt the call made (attempt = 2 after
\* three requests) and, in result, the error string of the call
\* ("Authentication error ..." after HTTP 401), which the record then
\* holds.
C13_FailedRecordCarriesAttemptAndError ==
  \A t \in Tasks :
    (CallFailed(t) /\ Len(Writes(t)) = 2 /\ Last(Writes(t)).ok /\ HasRow(t)) =>
      /\ Last(Writes(t)).what = Failed
      /\ Last(Writes(t)).attempt = Len(Requests(t)) - 1
      /\ Last(Writes(t)).result = JStr(Last(Requests(t)).error)
      /\ RowOf(t).status = Failed
      /\ RowOf(t).result = JStr(Last(Requests(t)).error)

\* the run has written COMPLETED with success into the row of its message
WroteCompleted(t) ==
  /\ Len(Writes(t)) = 2
  /\ Last(Writes(t)).what = Completed
  /\ Last(Writes(t)).ok
  /\ HasRow(t)

\* C14 as stated: once a run has written a COMPLETED record for a message
\* with body hash h, get_cached_completion keyed by h returns a hit, and
\* the completions of the hit are the completions that were persisted,
\* whatever JSON value they are.
C14_CacheRoundTrip ==
  \A t \in Tasks :
    WroteCompleted(t) =>
      LET hits == get_cached_completion(events, BodyHashOf(tasks[t].msg))
      IN /\ hits # {}
         /\ \E r \in hits : r.completions = Last(Writes(t)).result

(***************************************************************************)
(* The dispatcher's sessions.                                              *)
(***************************************************************************)
\* this step ends the dispatcher's session: creating the channel fails, or
\* the channel of the session goes away (QoS, queue declare or consume
\* fails, or the consume stream fails or ends)
SessionEnds ==
  \/ disp = "create_channel" /\ disp' \notin {"create_channel", "basic_qos"}
  \/ session > 0 /\ chanOpen[session] /\ ~chanOpen'[session]

\* C16 as stated, in what a single step can break: whenever the session
\* ends because the channel cannot be opened, QoS, queue declare or
\* consume fails, or the consume stream fails or ends, the dispatcher goes
\* to its 5-second sleep, and from the sleep to a full reconnect starting
\* at connect.
C16_SessionEndSleepsThenReconnects ==
  [][/\ SessionEnds => disp' = "sleep"
     /\ (disp = "sleep" /\ disp' # disp) => disp' = "connect"
     /\ (disp = "connect" /\ disp' # disp) => disp' \in {"create_channel", "connect_sleep"}
     /\ (disp = "connect_sleep" /\ disp' # disp) => disp' = "connect"]_vars

(***************************************************************************)
(* process_message: the failed PROCESSING write and the order of events.   *)
(***************************************************************************)
\* C17: when the initial PROCESSING write fails, the failed write is all
\* the run ever does: it returns at once with no settlement, no cache
\* probe, no upstream request and no further store write; the store is as
\* it was, and the delivery stays unacknowledged on its channel (the
\* broker puts it back on the queue when that channel goes away).
C17_FailedProcessingWriteLeavesUnsettled ==
  \A t \in Tasks :
    (Writes(t) # <<>> /\ ~Writes(t)[1].ok) =>
      /\ Returned(t)
      /\ Log(t) = <<WriteEv(Processing, FALSE, EmptyResponse)>>
      /\ events \in Stores
      /\ IF chanOpen[tasks[t].sess]
           THEN tasks[t].msg \in unacked[tasks[t].sess] /\ tasks[t].msg \notin queue
           ELSE tasks[t].msg \in queue

\* C17 witness: a run returned after its PROCESSING write failed, its
\* delivery still unacknowledged on the open channel.
C17_Witness ==
  \E t \in Tasks :
    /\ Returned(t)
    /\ ProcessingWriteFailed(t)
    /\ chanOpen[tasks[t].sess]
    /\ tasks[t].msg \in unacked[tasks[t].sess]

\* the stage of the message an event of the log belongs to
Stage(e) ==
  IF e.op = "write" /\ e.what = Processing THEN 1
  ELSE IF e.op = "probe" THEN 2
  ELSE IF e.op \in {"http", "sleep"} THEN 3
  ELSE IF e.op = "write" THEN 4
  ELSE 5

\* C18: in the run of a well-formed message the events come in the order
\* PROCESSING write, cache probe, upstream call (its requests and sleeps;
\* none on the cache path), terminal write, settlement, each of the four
\* single events at most once: no request is made before the probe has
\* returned and only after a miss or a store error of the probe; the
\* terminal write follows a hit or the call; a settlement comes only right
\* after a terminal write and ends the run; and a store error on the probe
\* leads to the upstream call as a miss does.
C18_StrictOrderWithinMessage ==
  \A t \in Tasks :
    (WellFormed(t) /\ Log(t) # <<>>) =>
      /\ Stage(Log(t)[1]) = 1
      /\ \A i, j \in 1..Len(Log(t)) :
           i < j =>
             /\ Stage(Log(t)[i]) <= Stage(Log(t)[j])
             /\ Stage(Log(t)[i]) = Stage(Log(t)[j]) => Stage(Log(t)[i]) = 3
      /\ \A i \in 1..Len(Log(t)) :
           /\ Stage(Log(t)[i]) = 2 => i = 2 /\ Log(t)[1].ok
           /\ Log(t)[i].op = "http" =>
                i > 2 /\ Log(t)[2] \in {ProbeEv("miss"), ProbeEv("err")}
           /\ Stage(Log(t)[i]) = 4 =>
                /\ i > 2
                /\ \/ Log(t)[i - 1] = ProbeEv("hit")
                   \/ Log(t)[i - 1].op = "http"
           /\ Stage(Log(t)[i]) = 5 =>
                /\ i > 1
                /\ Stage(Log(t)[i - 1]) = 4
                /\ i = Len(Log(t))
                /\ Returned(t)
      /\ (Len(Log(t)) >= 2 /\ Log(t)[2] = ProbeEv("err")) =>
           IF Len(Log(t)) = 2
             THEN tasks[t].pc = "call_llm"
             ELSE Log(t)[3].op = "http"

\* C18 witness: the probe met a store error, the call was made and
\* succeeded, COMPLETED was written and the delivery acked.
C18_Witness ==
  \E t \in Tasks :
    /\ Acked(t)
    /\ Len(Log(t)) = 5
    /\ Log(t)[2] = ProbeEv("err")
    /\ Log(t)[3].op = "http" /\ Log(t)[3].what = Success
    /\ Log(t)[4].op = "write" /\ Log(t)[4].what = Completed

(***************************************************************************)
(* call_llm: the delays of rate limits and of the backoff.                 *)
(***************************************************************************)
\* milliseconds rounded up to whole seconds
CeilSeconds(ms) == (ms + 999) \div 1000

\* C19 as stated: after an attempt whose parsed 2xx body carries
\* error.code = 429 the sleep before the next attempt is never below 2
\* seconds: with X-RateLimit-Reset present and ahead of now it is the time
\* to the reset in seconds plus 1 (rounded up, or counted in whole seconds)
\* with a floor of 2 s, and 2 s when the value is absent, unparseable or in
\* the past.
C19_BodyRateLimitSleepAtLeastTwoSeconds ==
  \A t \in Tasks :
    \A i \in 1..Len(Log(t)) :
      (SleepAfter(t, i) /\ Log(t)[i].ecode = 429) =>
        LET reset == Log(t)[i].reset_in_ms
            ms == Log(t)[i + 1].ms
        IN /\ ms >= 2000
           /\ IF reset = NoHeader \/ reset <= 0
                THEN ms = 2000
                ELSE ms \in {1000 * Max(2, CeilSeconds(reset) + 1),
                             1000 * Max(2, (reset \div 1000) + 1)}

\* the sleep is an ordinary backoff sleep: the failed attempt asked for no
\* delay of its own
BackoffSleep(e) == e.op = "sleep" /\ e.retry_after = NoHeader

\* C20 as stated: the backoff sleep between attempts k and k + 1 is
\* min(base_delay_ms * 2^k * J, max_delay_secs * 1000) ms for a jitter
\* factor J of [0.5, 1.5): the cap is applied after the jitter, and no
\* backoff sleep exceeds max_delay_secs seconds.
C20_BackoffCappedAfterJitter ==
  \A t \in Tasks :
    \A i \in 1..Len(Log(t)) :
      BackoffSleep(Log(t)[i]) =>
        LET k == Log(t)[i].attempt
            ms == Log(t)[i].ms
        IN /\ ms <= max_delay_secs * 1000
           /\ \E j \in Jitters :
                ms = Min(jitter(base_delay_ms * Pow2(k), j), max_delay_secs * 1000)


(***************************************************************************)
(* Error objects inside a 2xx body.                                        *)
(***************************************************************************)
\* the requests of run t that were answered 2xx with a parsed body holding
\* an error object
BodyErrorRequests(t) ==
  {i \in 1..Len(Requests(t)) : Requests(t)[i].errobj}

ServerErrorCode(c) == c >= 500 /\ c < 600

\* C21 as stated: an error object in a 2xx body, at "error" or at
\* "completions.error", is classified by its code as an HTTP error is:
\* 429 and 500-599 are transient, every other error.code is permanent, and
\* a body that holds an error object is never returned as a successful
\* response.
C21_BodyErrorNeverSucceeds ==
  \A t \in Tasks : \A i \in BodyErrorRequests(t) :
    LET e == Requests(t)[i]
    IN /\ e.what # Success
       /\ (e.ecode = 429 \/ ServerErrorCode(e.ecode)) => e.what = Transient
       /\ ~(e.ecode = 429 \/ ServerErrorCode(e.ecode)) => e.what = Permanent

\* C26: an error object whose code is absent or is no non-negative integer
\* does not fail the attempt: call_llm returns the body as the response of
\* a successful call, process_message writes COMPLETED with that body as
\* the completions, and once the write succeeded the record of the message
\* is COMPLETED with the error body as its result and the delivery is
\* acked.
C26_ErrorWithoutCodeCompletes ==
  \A t \in Tasks : \A i \in BodyErrorRequests(t) :
    LET e == Requests(t)[i]
    IN e.ecode = NoCode =>
         /\ e.what = Success
         /\ i = Len(Requests(t))
         /\ tasks[t].resp = LLMResponse(JObj("error"), FALSE, e.attempt)
         /\ Len(Writes(t)) <= 2
         /\ Len(Writes(t)) = 2 =>
              /\ Last(Writes(t)).what = Completed
              /\ Last(Writes(t)).result = JObj("error")
              /\ (Last(Writes(t)).ok /\ HasRow(t)) =>
                   /\ RowOf(t).status = Completed
                   /\ RowOf(t).result = JObj("error")
              /\ (Last(Writes(t)).ok /\ Settlements(t) # <<>>) =>
                   Last(Settlements(t)).what = Ack
         /\ Returned(t) => Len(Writes(t)) = 2 /\ Settlements(t) # <<>>

\* a run that got an error object without a code, wrote it as the result
\* of a COMPLETED record and acked
C26_Witness ==
  \E t \in Tasks :
    /\ Returned(t)
    /\ BodyErrorRequests(t) # {}
    /\ Last(Requests(t)).ecode = NoCode
    /\ Last(Requests(t)).errobj
    /\ HasRow(t)
    /\ RowOf(t).status = Completed
    /\ RowOf(t).result = JObj("error")
    /\ Last(Settlements(t)).what = Ack
    /\ Last(Settlements(t)).ok


(***************************************************************************)
(* Messages without a record in the store.                                 *)
(***************************************************************************)
\* every write of run t was reported as a success by update_event_status
AllWritesOk(t) == \A i \in 1..Len(Writes(t)) : Writes(t)[i].ok

\* the run is on a message that parsed and has no record under its
\* message_id ("" when the field is missing or no string)
NoRecordRun(t) == WellFormed(t) /\ ~HasRow(t)

\* what a run on a message without a record has done when it returned with
\* every write reported as a success
NoRecordRunCompletes(t) ==
  (Returned(t) /\ NoRecordRun(t) /\ AllWritesOk(t)) =>
    /\ Len(Writes(t)) = 2
    /\ Writes(t)[1].what = Processing
    /\ Last(Writes(t)).what \in Terminal
    /\ ~CacheHit(t) => Requests(t) # <<>>
    /\ Acked(t)

\* C25: update_event_status only updates a row that exists and reports
\* success when none matches, so no step adds a record to the store; a run
\* on a message whose message_id has no record (a message without a
\* message_id is looked up under "") goes on as if the writes had been
\* made: it calls the upstream on a cache miss, writes the terminal status
\* and acks, and the store still holds no record of the message.
C25_NoRecordIsNeverCreated ==
  /\ [][DOMAIN events' = DOMAIN events]_vars
  /\ [](\A t \in Tasks : NoRecordRunCompletes(t))

\* a run on the delivery without message_id that called the upstream,
\* wrote COMPLETED with success, acked, and left the store without a record
\* under ""
C25_Witness ==
  \E t \in Tasks :
    /\ Returned(t)
    /\ WellFormed(t)
    /\ Deliveries[tasks[t].msg].message_id = JNull
    /\ "" \notin DOMAIN events
    /\ AllWritesOk(t)
    /\ Last(Writes(t)).what = Completed
    /\ Requests(t) # <<>>
    /\ Acked(t)
    /\ Last(Settlements(t)).ok


(***************************************************************************)
(* Prefetch and semaphore of one session, for any configured               *)
(* max_parallel_tasks. The tasks are counted, not followed: held is the    *)
(* delivery run_consumer has taken from the stream and not yet spawned a   *)
(* task for, unacked the deliveries the broker holds as unsettled, running *)
(* the tasks spawned and not yet past drop(permit), settled those of them  *)
(* that have settled their delivery.                                       *)
(***************************************************************************)
ConfiguredValues == {1, 2, 3, 300, 65535, 65536, 65537, 65538, 131072}

InitQos ==
  /\ disp = "connect"
  /\ session = 0
  /\ chanOpen = [s \in Sessions |-> FALSE]
  /\ permits = [s \in Sessions |-> 0]
  /\ held = 0
  /\ queue = {}
  /\ unacked = [s \in Sessions |-> {}]
  /\ ntasks = 0
  /\ tasks = [t \in Tasks |-> IdleTask]
  /\ events = InitialEvents
  /\ clock = 0
  /\ last_call = NoCall
  /\ \E n \in ConfiguredValues : qos = [NoQos EXCEPT !.configured = n]

QosFrame ==
  UNCHANGED <<disp, session, chanOpen, permits, held, queue, unacked, ntasks,
              tasks, events, clock, last_call>>

\* main.rs 118-142: basic_qos(settings.max_parallel_tasks as u16) and
\* Semaphore::new(settings.max_parallel_tasks)
QosSetup ==
  /\ qos.prefetch = NoPrefetch
  /\ qos' = [qos EXCEPT !.prefetch = PrefetchOf(qos.configured),
                        !.permits = qos.configured]
  /\ QosFrame

\* main.rs 158: consumer.next() yields a delivery; the broker sends one
\* while fewer than prefetch are unsettled, or always when prefetch is 0
QosDeliver ==
  /\ qos.prefetch # NoPrefetch
  /\ qos.held = 0
  /\ qos.prefetch = 0 \/ qos.unacked < qos.prefetch
  /\ qos.unacked < MaxOutstanding
  /\ qos' = [qos EXCEPT !.held = 1, !.unacked = @ + 1]
  /\ QosFrame

\* main.rs 160-164: acquire_owned() and tokio::spawn
QosSpawn ==
  /\ qos.held = 1
  /\ qos.permits > 0
  /\ qos.running < MaxOutstanding
  /\ qos' = [qos EXCEPT !.held = 0, !.permits = @ - 1, !.running = @ + 1]
  /\ QosFrame

\* a running process_message settles its delivery
QosSettle ==
  /\ qos.settled < qos.running
  /\ qos' = [qos EXCEPT !.settled = @ + 1, !.unacked = @ - 1]
  /\ QosFrame

\* main.rs 165-166: process_message returned, drop(permit)
QosDrop ==
  /\ qos.settled > 0
  /\ qos' = [qos EXCEPT !.settled = @ - 1, !.running = @ - 1, !.permits = @ + 1]
  /\ QosFrame

NextQos == QosSetup \/ QosDeliver \/ QosSpawn \/ QosSettle \/ QosDrop

SpecQos == InitQos /\ [][NextQos]_vars

\* C22 as stated: for every configured max_parallel_tasks, values of 2^16
\* and more included, the prefetch count sent to the broker equals
\* max_parallel_tasks, the capacity of the semaphore, so that the broker
\* never has more deliveries outstanding than the admission ceiling.
C22_PrefetchEqualsCeiling ==
  qos.prefetch # NoPrefetch =>
    /\ qos.prefetch = qos.configured
    /\ qos.permits + qos.running = qos.configured
    /\ qos.unacked <= qos.configured


(***************************************************************************)
(* One session of the dispatcher with its tasks, scheduled fairly: the     *)
(* runtime keeps running the spawned tasks as long as one of them can take *)
(* a step (every run of process_message is finite), and the dispatcher's   *)
(* acquire_owned() returns once a permit is available.                     *)
(***************************************************************************)
InitSession ==
  /\ disp = "next"
  /\ session = 1
  /\ chanOpen = [s \in Sessions |-> s = 1]
  /\ permits = [s \in Sessions |-> IF s = 1 THEN SemaphoreCapacity ELSE 0]
  /\ held = 0
  /\ queue = CoreDeliveryIds
  /\ unacked = [s \in Sessions |-> {}]
  /\ ntasks = 0
  /\ tasks = [t \in Tasks |-> IdleTask]
  /\ events = InitialEvents
  /\ clock = 0
  /\ last_call = NoCall
  /\ qos = NoQos

\* one step of the t-th spawned process_message
TaskStep(t) ==
  \/ Parse(t)
  \/ MarkProcessing(t)
  \/ CacheProbe(t)
  \/ CacheWrite(t)
  \/ HttpAttempt(t, CoreResponses)
  \/ Backoff(t, {100})
  \/ CompletedWrite(t)
  \/ FailedWrite(t)
  \/ Settle(t)
  \/ DropPermit(t)

NextSession ==
  \/ ConsumerNext
  \/ Spawn
  \/ StreamError
  \/ \E t \in Tasks : TaskStep(t)

SpecSession ==
  /\ InitSession
  /\ [][NextSession]_vars
  /\ WF_vars(Spawn)
  /\ WF_vars(\E t \in Tasks : TaskStep(t))

\* the tasks of session s that hold a permit: spawned and not yet past
\* drop(permit)
Holding(s) == {t \in Tasks : Running(t) /\ tasks[t].sess = s}

\* within the session, the permits available and the tasks running add up
\* to max_parallel_tasks
PermitsAccounted ==
  permits[session] + Cardinality(Holding(session)) = max_parallel_tasks

\* the one step of a task whose process_message has returned gives its
\* permit back to the semaphore of its session and ends the task
ReturnedTaskDropsPermit ==
  \A t \in Tasks :
    (tasks[t].pc = "returned" /\ tasks'[t] # tasks[t]) =>
      /\ tasks'[t].pc = "done"
      /\ permits'[tasks[t].sess] = permits[tasks[t].sess] + 1

\* C24: a task gives its permit back when process_message has returned,
\* whatever the path taken (malformed, failed PROCESSING write, cache hit,
\* upstream success or failure, failed settlement); within the session the
\* permits available plus the tasks running always add up to
\* max_parallel_tasks; and, every task terminating, the dispatcher
\* eventually admits each delivery it has received.
C24_PermitReleasedOnEveryPath ==
  /\ []PermitsAccounted
  /\ [][ReturnedTaskDropsPermit]_vars
  /\ (disp = "acquire") ~> (disp = "next" /\ held = 0)

\* the dispatcher holds a delivery and waits for a permit: every permit is
\* with a task, one of which has settled and returned from process_message
\* and is about to drop it
C24_Witness ==
  /\ disp = "acquire"
  /\ held # 0
  /\ permits[session] = 0
  /\ \E t \in Holding(session) : Returned(t) /\ Settlements(t) # <<>>


(***************************************************************************)
(* A message delivered again while its first run is still in progress:    *)
(* the session of the first delivery was lost right after the task was     *)
(* spawned, the broker put the delivery back on the queue, and the         *)
(* dispatcher consumes in a new session.                                   *)
(***************************************************************************)
InitRedelivery ==
  /\ disp = "next"
  /\ session = 2
  /\ chanOpen = [s \in Sessions |-> s = 2]
  /\ permits = [s \in Sessions |->
                  IF s = 1 THEN SemaphoreCapacity - 1
                  ELSE IF s = 2 THEN SemaphoreCapacity ELSE 0]
  /\ held = 0
  /\ queue = {1}
  /\ unacked = [s \in Sessions |-> {}]
  /\ ntasks = 1
  /\ tasks = [t \in Tasks |-> IF t = 1 THEN SpawnedTask(1, 1) ELSE IdleTask]
  /\ events = InitialEvents
  /\ clock = 0
  /\ last_call = NoCall
  /\ qos = NoQos

NextRedelivery ==
  \/ ConsumerNext
  \/ Spawn
  \/ \E t \in Tasks : TaskStep(t)

SpecRedelivery == InitRedelivery /\ [][NextRedelivery]_vars

\* this step is a write of run t that the store accepted, on the record id
WritesRecord(t, id) ==
  /\ tasks[t].msg \in DeliveryIds
  /\ MessageIdOf(tasks[t].msg) = id
  /\ Len(tasks'[t].log) = Len(tasks[t].log) + 1
  /\ Last(tasks'[t].log).op = "write"
  /\ Last(tasks'[t].log).ok
  /\ Last(tasks'[t].log).what = events'[id].status

\* C23 as stated: whatever the deliveries and redeliveries of a message,
\* the status of its record only moves forward, from PROCESSING to
\* COMPLETED or FAILED; PENDING is never written; and a record in a
\* terminal state changes status only by re-entering PROCESSING, on the
\* retry that follows a requeue of the message.
C23_StatusMovesForward ==
  [][\A id \in DOMAIN events :
       LET a == events[id].status
           b == events'[id].status
       IN a # b =>
            /\ b # Pending
            /\ b \in Terminal => a = Processing
            /\ a \in Terminal => b = Processing]_vars

\* run t is past its own PROCESSING write, which the store accepted
MarkedProcessing(t) ==
  /\ Writes(t) # <<>>
  /\ Writes(t)[1].what = Processing
  /\ Writes(t)[1].ok

\* what does hold of the status of a record: PENDING is never written and
\* no record appears or disappears; every change of status is the write of
\* a run of that message, PROCESSING by its first write, COMPLETED or FAILED
\* by the terminal write of a run that had written PROCESSING before; and a
\* record goes from one terminal state to the other only when two runs of
\* the message overlap, after the loss of a session.
StatusChangesAreWrites ==
  [][/\ DOMAIN events' = DOMAIN events
     /\ \A id \in DOMAIN events :
          LET a == events[id].status
              b == events'[id].status
          IN a # b =>
               /\ b # Pending
               /\ \E t \in Tasks :
                    /\ WritesRecord(t, id)
                    /\ b = Processing => tasks[t].pc = "mark_processing"
                    /\ b \in Terminal => MarkedProcessing(t)
               /\ (a \in Terminal /\ b \in Terminal) =>
                    /\ ntasks >= 2
                    /\ \E s \in 1..session : ~chanOpen[s]]_vars

====
